---- MODULE Spec2Model ----
(***************************************************************************)
(* Model of rust/kernel/regmap.rs: the RegmapConfig -> regmap_config       *)
(* projection (to_binding), the Regmap handle built by from_mmio, the      *)
(* scalar regmap_read / regmap_write operations and the handle's Drop.     *)
(*                                                                         *)
(* Four specifications share the module:                                   *)
(*   SpecProj  builds a RegmapConfig field by field and projects it;       *)
(*   SpecTwice projects one Configuration again and again, the caller      *)
(*             holding the result of the call before;                      *)
(*   SpecOpen  opens handles from any Configuration, under any outcome of  *)
(*             the allocator, the build and the native open call, and      *)
(*             drops them;                                                 *)
(*   Spec      opens handles from the default Configuration, reads and     *)
(*             writes registers through them and drops them.               *)
(***************************************************************************)
EXTENDS Integers, Sequences, FiniteSets, TLC

VARIABLES config, nsets, proj, first, attempts, handles, log, lastOpen, lastOp

vars == <<config, nsets, proj, first, attempts, handles, log, lastOpen, lastOp>>
projVars == <<config, nsets, proj, first>>
handleVars == <<attempts, handles, log, lastOpen, lastOp>>

(***************************************************************************)
(* Bounds of the model.                                                    *)
(***************************************************************************)
\* longest slice (regmap_range, reg_default, RegmapRangeConfig) a caller uses
MaxLen == 2
\* number of field assignments made to one RegmapConfig after new()
MaxSets == 1
\* number of from_mmio calls
MaxAttempts == 2
\* number of regmap_read / regmap_write calls
MaxOps == 2

(***************************************************************************)
(* Option<T>, Result<T>, Error.                                            *)
(***************************************************************************)
None == [some |-> FALSE]
Some(x) == [some |-> TRUE, val |-> x]
unwrap_or(o, d) == IF o.some THEN o.val ELSE d

Error(e) == [errno |-> e]
Ok(v) == [ok |-> TRUE, val |-> v]
Err(e) == [ok |-> FALSE, err |-> e]

\* the errno the kernel's allocation error converts to (`?` on TryReserveError)
ENOMEM == 0 - 12

(***************************************************************************)
(* Raw pointers.  An object is named by the storage region it lives in, a  *)
(* field or slice kind inside it and an identifier; a pointer is null or   *)
(* an object plus an element index.                                        *)
(***************************************************************************)
Obj(region, field, id) == [region |-> region, field |-> field, id |-> id]
NULL == [null |-> TRUE]
Ptr(obj, idx) == [null |-> FALSE, obj |-> obj, idx |-> idx]

\* the stack slot of `binds`, the local of RegmapConfig::to_binding: where it
\* lies depends on the depth of the stack at the call
BindsLocal == "to_binding.binds"
BindsLocalDeeper == "to_binding.binds, deeper frame"
Frames == {BindsLocal, BindsLocalDeeper}
\* the stack slot of `internal_bindings`, the local of Regmap::from_mmio
BindsCaller == "from_mmio.internal_bindings"

\* `x as u32` for a non-negative x: x mod 2^32, computed on 16-bit halves
AsU32(x) == (x % 65536) + 65536 * ((x \div 65536) % 65536)

\* slice.as_ptr(): the address of the slice's first element
slice_as_ptr(s) == Ptr(Obj("borrowed", s.kind, s.id), 0)
\* CStr::as_char_ptr(): the address of the statically-lived text
as_char_ptr(n) == Ptr(Obj("static", n, 0), 0)

(***************************************************************************)
(* enum RegmapEndian, enum RegcacheType and their From<..> for u32.        *)
(***************************************************************************)
RegmapEndian == <<"RegmapEndianDefault", "RegmapEndianBig",
                  "RegmapEndianLittle", "RegmapEndianNative">>
RegcacheType == <<"None", "RBTREE", "COMPRESSED", "FLAT">>

Discriminant(variants, v) == (CHOOSE i \in 1..Len(variants) : variants[i] = v) - 1

RegmapEndian_into_u32(value) == Discriminant(RegmapEndian, value)
RegcacheType_into_u32(value) == Discriminant(RegcacheType, value)

(***************************************************************************)
(* RegmapAccessTable::to_binding                                           *)
(***************************************************************************)
\* the count of the no-list is taken from the yes-list
RegmapAccessTable_to_binding_CopyPaste(self) ==
    [ yes_ranges   |-> slice_as_ptr(self.yes_ranges),
      n_yes_ranges |-> AsU32(Len(self.yes_ranges.elems)),
      no_ranges    |-> slice_as_ptr(self.no_ranges),
      n_no_ranges  |-> AsU32(Len(self.yes_ranges.elems)) ]

RegmapAccessTable_to_binding(self) ==
    [ yes_ranges   |-> slice_as_ptr(self.yes_ranges),
      n_yes_ranges |-> AsU32(Len(self.yes_ranges.elems)),
      no_ranges    |-> slice_as_ptr(self.no_ranges),
      n_no_ranges  |-> AsU32(Len(self.no_ranges.elems)) ]

(***************************************************************************)
(* RegmapRangeConfig::to_binding                                           *)
(***************************************************************************)
\* range_max is filled from range_min
RegmapRangeConfig_to_binding_CopyPaste(self) ==
    [ name           |-> as_char_ptr(self.name),
      range_min      |-> self.range_min,
      range_max      |-> self.range_min,
      selector_reg   |-> self.selector_reg,
      selector_mask  |-> self.selector_mask,
      selector_shift |-> self.selector_shift,
      window_start   |-> self.window_start,
      window_len     |-> self.window_len ]

RegmapRangeConfig_to_binding(self) ==
    [ name           |-> as_char_ptr(self.name),
      range_min      |-> self.range_min,
      range_max      |-> self.range_max,
      selector_reg   |-> self.selector_reg,
      selector_mask  |-> self.selector_mask,
      selector_shift |-> self.selector_shift,
      window_start   |-> self.window_start,
      window_len     |-> self.window_len ]

(***************************************************************************)
(* RegmapConfig::new                                                       *)
(***************************************************************************)
RegmapConfig_new(reg_bits, val_bits) ==
    [ name              |-> None,
      reg_bits          |-> reg_bits,
      reg_stride        |-> None,
      reg_downshift     |-> None,
      reg_base          |-> None,
      pad_bits          |-> None,
      val_bits          |-> val_bits,
      max_raw_read      |-> None,
      max_raw_write     |-> None,
      fast_io           |-> None,
      io_port           |-> None,
      max_register      |-> None,
      wr_table          |-> None,
      rd_table          |-> None,
      volatile_table    |-> None,
      precious_table    |-> None,
      wr_noinc_table    |-> None,
      rd_noinc_table    |-> None,
      reg_defaults      |-> None,
      cache_type        |-> "None",
      read_flag_mask    |-> None,
      write_flag_mask   |-> None,
      zero_flag_mask    |-> None,
      use_single_read   |-> None,
      use_single_write  |-> None,
      use_relaxed_mmio  |-> None,
      can_multi_write   |-> None,
      reg_format_endian |-> "RegmapEndianDefault",
      val_format_endian |-> "RegmapEndianDefault",
      ranges            |-> None,
      can_sleep         |-> None ]

(***************************************************************************)
(* Vec<regmap_range_cfg>: capacity, items and the heap buffer.  A vector   *)
(* of capacity 0 owns no buffer (its pointer dangles, non-null).  env is   *)
(* what the machine does during one call of to_binding: env.oom says       *)
(* whether the allocator refuses the requests, env.heap is the buffer it   *)
(* hands out when it does not, env.frame is where the call's local `binds` *)
(* lies.                                                                   *)
(***************************************************************************)
HeapBufs == {1, 2}
Envs == [oom : BOOLEAN, heap : HeapBufs, frame : Frames]

VecBuf(cap, heap) ==
    IF cap = 0 THEN Obj("dangling", "none", 0) ELSE Obj("heap", "ranges", heap)

try_with_capacity(cap, env) ==
    IF cap > 0 /\ env.oom
    THEN Err(Error(ENOMEM))
    ELSE Ok([cap |-> cap, items |-> <<>>, buf |-> VecBuf(cap, env.heap)])

try_push(v, x, env) ==
    IF Len(v.items) < v.cap
    THEN Ok([v EXCEPT !.items = Append(v.items, x)])
    ELSE IF env.oom
         THEN Err(Error(ENOMEM))
         ELSE Ok([cap   |-> Len(v.items) + 1,
                  items |-> Append(v.items, x),
                  buf   |-> VecBuf(Len(v.items) + 1, env.heap)])

vec_as_ptr(v) == Ptr(v.buf, 0)

\* for i in r { v.try_push(i.to_binding())? }, from element k on
RECURSIVE PushRanges(_, _, _, _)
PushRanges(v, r, k, env) ==
    IF k > Len(r)
    THEN Ok(v)
    ELSE LET p == try_push(v, RegmapRangeConfig_to_binding(r[k]), env)
         IN  IF p.ok THEN PushRanges(p.val, r, k + 1, env) ELSE p

\* an allocation failure is swallowed: the ranges are projected as absent
ProjectRanges_Swallow(self, env) ==
    IF self.ranges.some
    THEN LET r == self.ranges.val.elems
             v == try_with_capacity(Len(r), env)
         IN  IF ~v.ok
             THEN Ok(None)
             ELSE LET p == PushRanges(v.val, r, 1, env)
                  IN  IF p.ok THEN Ok(Some(p.val)) ELSE Ok(None)
    ELSE Ok(None)

\* the `ranges:` initialiser of RegmapConfigBindings
ProjectRanges(self, env) ==
    IF self.ranges.some
    THEN LET r == self.ranges.val.elems
             v == try_with_capacity(Len(r), env)
         IN  IF ~v.ok
             THEN v
             ELSE LET p == PushRanges(v.val, r, 1, env)
                  IN  IF p.ok THEN Ok(Some(p.val)) ELSE p
    ELSE Ok(None)

\* Option<&RegmapAccessTable>.map(|r| r.to_binding())
MapTable(t) == IF t.some THEN Some(RegmapAccessTable_to_binding(t.val)) ELSE None

\* if let Some(x) = binds.<field>.as_ref() {x} else {ptr::null()}
BindsFieldPtr(binds, field, frame) ==
    IF binds[field].some THEN Ptr(Obj(frame, field, 0), 0) ELSE NULL

NoCallback == None

(***************************************************************************)
(* RegmapConfig::to_binding.                                               *)
(***************************************************************************)
\* the RegmapConfigBindings literal, given the projected `ranges`
BindsLiteral(self, ranges) ==
    [ wr_table       |-> MapTable(self.wr_table),
      rd_table       |-> MapTable(self.rd_table),
      volatile_table |-> MapTable(self.volatile_table),
      precious_table |-> MapTable(self.precious_table),
      wr_noinc_table |-> MapTable(self.wr_noinc_table),
      rd_noinc_table |-> MapTable(self.rd_noinc_table),
      ranges         |-> ranges ]

\* the bindings::regmap_config literal, built from self and the local binds,
\* which lies at `frame`
CfgLiteral(self, binds, frame) ==
    [ name                 |-> IF self.name.some
                               THEN as_char_ptr(self.name.val) ELSE NULL,
      reg_bits             |-> self.reg_bits,
      reg_stride           |-> unwrap_or(self.reg_stride, 0),
      reg_downshift        |-> unwrap_or(self.reg_downshift, 0),
      reg_base             |-> unwrap_or(self.reg_base, 0),
      pad_bits             |-> unwrap_or(self.pad_bits, 0),
      val_bits             |-> self.val_bits,
      writeable_reg        |-> NoCallback,
      readable_reg         |-> NoCallback,
      volatile_reg         |-> NoCallback,
      precious_reg         |-> NoCallback,
      writeable_noinc_reg  |-> NoCallback,
      readable_noinc_reg   |-> NoCallback,
      disable_locking      |-> FALSE,
      lock                 |-> NoCallback,
      unlock               |-> NoCallback,
      lock_arg             |-> NULL,
      reg_read             |-> NoCallback,
      reg_write            |-> NoCallback,
      reg_update_bits      |-> NoCallback,
      read                 |-> NoCallback,
      write                |-> NoCallback,
      max_raw_read         |-> unwrap_or(self.max_raw_read, 0),
      max_raw_write        |-> unwrap_or(self.max_raw_write, 0),
      fast_io              |-> unwrap_or(self.fast_io, FALSE),
      io_port              |-> unwrap_or(self.io_port, FALSE),
      max_register         |-> unwrap_or(self.max_register, 0),
      wr_table             |-> BindsFieldPtr(binds, "wr_table", frame),
      rd_table             |-> BindsFieldPtr(binds, "rd_table", frame),
      volatile_table       |-> BindsFieldPtr(binds, "volatile_table", frame),
      precious_table       |-> BindsFieldPtr(binds, "precious_table", frame),
      wr_noinc_table       |-> BindsFieldPtr(binds, "wr_noinc_table", frame),
      rd_noinc_table       |-> BindsFieldPtr(binds, "rd_noinc_table", frame),
      reg_defaults         |-> IF self.reg_defaults.some
                               THEN slice_as_ptr(self.reg_defaults.val)
                               ELSE NULL,
      num_reg_defaults     |-> IF self.reg_defaults.some
                               THEN AsU32(Len(self.reg_defaults.val.elems))
                               ELSE 0,
      cache_type           |-> RegcacheType_into_u32(self.cache_type),
      reg_defaults_raw     |-> NULL,
      num_reg_defaults_raw |-> 0,
      read_flag_mask       |-> unwrap_or(self.read_flag_mask, 0),
      write_flag_mask      |-> unwrap_or(self.write_flag_mask, 0),
      zero_flag_mask       |-> unwrap_or(self.zero_flag_mask, FALSE),
      use_single_read      |-> unwrap_or(self.use_single_read, FALSE),
      use_single_write     |-> unwrap_or(self.use_single_write, FALSE),
      use_relaxed_mmio     |-> unwrap_or(self.use_relaxed_mmio, FALSE),
      can_multi_write      |-> unwrap_or(self.can_multi_write, FALSE),
      reg_format_endian    |-> RegmapEndian_into_u32(self.reg_format_endian),
      val_format_endian    |-> RegmapEndian_into_u32(self.val_format_endian),
      ranges               |-> IF binds.ranges.some
                               THEN vec_as_ptr(binds.ranges.val) ELSE NULL,
      num_ranges           |-> IF self.ranges.some
                               THEN AsU32(Len(self.ranges.val.elems))
                               ELSE 0,
      use_hwlock           |-> FALSE,
      use_raw_spinlock     |-> FALSE,
      hwlock_id            |-> 0,
      hwlock_mode          |-> 0,
      can_sleep            |-> unwrap_or(self.can_sleep, FALSE) ]

\* reg_stride defaults to 1 (what the field's documentation promises)
RegmapConfig_to_binding_Stride(self, env) ==
    LET rg == ProjectRanges(self, env)
    IN  IF ~rg.ok
        THEN rg
        ELSE LET binds == BindsLiteral(self, rg.val)
                 cfg == CfgLiteral(self, binds, env.frame)
             IN  Ok(<<[cfg EXCEPT !.reg_stride = unwrap_or(self.reg_stride, 1)], binds>>)

\* the spinlock selection follows the fast_io request
RegmapConfig_to_binding_Spinlock(self, env) ==
    LET rg == ProjectRanges(self, env)
    IN  IF ~rg.ok
        THEN rg
        ELSE LET binds == BindsLiteral(self, rg.val)
                 cfg == CfgLiteral(self, binds, env.frame)
             IN  Ok(<<[cfg EXCEPT !.use_raw_spinlock = cfg.fast_io], binds>>)

\* reg_defaults is copied into storage of the call, as ranges is
RegmapConfig_to_binding_CopyDefaults(self, env) ==
    LET rg == ProjectRanges(self, env)
    IN  IF ~rg.ok
        THEN rg
        ELSE LET binds == BindsLiteral(self, rg.val)
                 cfg == CfgLiteral(self, binds, env.frame)
                 copy == IF self.reg_defaults.some
                         THEN Ptr(Obj("heap", "reg_defaults", env.heap), 0)
                         ELSE NULL
             IN  Ok(<<[cfg EXCEPT !.reg_defaults = copy], binds>>)

\* Ok(<<regmap_config, RegmapConfigBindings>>) or the allocation failure
RegmapConfig_to_binding(self, env) ==
    LET rg == ProjectRanges(self, env)
    IN  IF ~rg.ok
        THEN rg
        ELSE LET binds == BindsLiteral(self, rg.val)
                 cfg == CfgLiteral(self, binds, env.frame)
             IN  Ok(<<cfg, binds>>)

(***************************************************************************)
(* Values a driver puts into a RegmapConfig.                               *)
(***************************************************************************)
RegBitsSet == {8, 32}
ValBitsSet == {16}

RangeAt(i) == [range_min |-> 16 * i, range_max |-> 16 * i + 15]
DefaultAt(i) == [reg |-> 4 * i, def |-> 100 + i]
RangeCfgAt(i) ==
    [ name           |-> "page",
      range_min      |-> 256 * i,
      range_max      |-> 256 * i + 255,
      selector_reg   |-> 7 + i,
      selector_mask  |-> 240,
      selector_shift |-> 4,
      window_start   |-> 32 * i,
      window_len     |-> 16 ]

\* a borrowed slice: the storage it lives in (kind, id) and its elements
Slice(kind, elems) == [kind |-> kind, id |-> Len(elems), elems |-> elems]

RangeSlices == {Slice("regmap_range", [i \in 1..n |-> RangeAt(i)]) : n \in 0..MaxLen}
DefaultSlices == {Slice("reg_default", [i \in 1..n |-> DefaultAt(i)]) : n \in 0..MaxLen}
RangeCfgSlices ==
    {Slice("RegmapRangeConfig", [i \in 1..n |-> RangeCfgAt(i)]) : n \in 0..MaxLen}
AccessTables == [yes_ranges : RangeSlices, no_ranges : RangeSlices]
Names == {"regs", "ctrl"}

I32Fields == {"reg_stride", "reg_downshift", "pad_bits"}
I32Values == {0 - 1, 0, 4}
U32Fields == {"reg_base", "max_register"}
U32Values == {0, 255}
UsizeFields == {"max_raw_read", "max_raw_write"}
UsizeValues == {0, 64}
U64Fields == {"read_flag_mask", "write_flag_mask"}
U64Values == {0, 128}
BoolFields == {"fast_io", "io_port", "zero_flag_mask", "use_single_read",
               "use_single_write", "use_relaxed_mmio", "can_multi_write",
               "can_sleep"}
TableFields == {"wr_table", "rd_table", "volatile_table", "precious_table",
                "wr_noinc_table", "rd_noinc_table"}
EndianFields == {"reg_format_endian", "val_format_endian"}

Variants(e) == {e[i] : i \in 1..Len(e)}

\* the projection has not run on the current Configuration
NoProj == [done |-> FALSE]

\* assignment of one field of the Configuration under construction
Assign(field, value) ==
    /\ nsets < MaxSets
    /\ config' = [config EXCEPT ![field] = value]
    /\ nsets' = nsets + 1
    /\ proj' = NoProj
    /\ first' = NoProj
    /\ UNCHANGED handleVars

(***************************************************************************)
(* Actions of the projection specification.                                *)
(***************************************************************************)
NewConfig ==
    \E rb \in RegBitsSet, vb \in ValBitsSet :
        /\ config' = RegmapConfig_new(rb, vb)
        /\ nsets' = 0
        /\ proj' = NoProj
        /\ first' = NoProj
        /\ UNCHANGED handleVars

SetI32 == \E f \in I32Fields, v \in I32Values : Assign(f, Some(v))
SetU32 == \E f \in U32Fields, v \in U32Values : Assign(f, Some(v))
SetUsize == \E f \in UsizeFields, v \in UsizeValues : Assign(f, Some(v))
SetU64 == \E f \in U64Fields, v \in U64Values : Assign(f, Some(v))
SetBool == \E f \in BoolFields, v \in BOOLEAN : Assign(f, Some(v))
SetTable == \E f \in TableFields, t \in AccessTables : Assign(f, Some(t))
SetRegDefaults == \E d \in DefaultSlices : Assign("reg_defaults", Some(d))
SetCacheType == \E t \in Variants(RegcacheType) : Assign("cache_type", t)
SetEndian == \E f \in EndianFields, e \in Variants(RegmapEndian) : Assign(f, e)
SetRanges == \E r \in RangeCfgSlices : Assign("ranges", Some(r))
SetName == \E n \in Names : Assign("name", Some(n))

\* the heap buffers owned by the bundle of projection p
HeldBufs(p) ==
    IF p.done /\ p.result.ok /\ p.result.val[2].ranges.some
    THEN {b \in HeapBufs : p.result.val[2].ranges.val.buf = Obj("heap", "ranges", b)}
    ELSE {}

\* one call of config.to_binding(); proj keeps the call's input and result
\* (the result of the call before is dropped); the allocator never hands out
\* a buffer that a bundle the caller holds still owns
ToBinding ==
    \E env \in Envs :
        /\ env.heap \notin HeldBufs(first)
        /\ proj' = [done |-> TRUE, oom |-> env.oom, of |-> config,
                    result |-> RegmapConfig_to_binding(config, env)]
        /\ UNCHANGED <<config, nsets, first>>
        /\ UNCHANGED handleVars

\* config.to_binding() is called again while the caller keeps the result of
\* the call before, which becomes `first`
ToBindingAgain ==
    \E env \in Envs :
        /\ proj.done
        /\ env.heap \notin HeldBufs(proj)
        /\ first' = proj
        /\ proj' = [done |-> TRUE, oom |-> env.oom, of |-> config,
                    result |-> RegmapConfig_to_binding(config, env)]
        /\ UNCHANGED <<config, nsets>>
        /\ UNCHANGED handleVars

NoOpen == [done |-> FALSE]
NoOp == [done |-> FALSE]

InitProj ==
    /\ \E rb \in RegBitsSet, vb \in ValBitsSet : config = RegmapConfig_new(rb, vb)
    /\ nsets = 0
    /\ proj = NoProj
    /\ first = NoProj
    /\ attempts = 0
    /\ handles = {}
    /\ log = <<>>
    /\ lastOpen = NoOpen
    /\ lastOp = NoOp

NextProj ==
    \/ NewConfig
    \/ SetI32
    \/ SetU32
    \/ SetUsize
    \/ SetU64
    \/ SetBool
    \/ SetTable
    \/ SetRegDefaults
    \/ SetCacheType
    \/ SetEndian
    \/ SetRanges
    \/ SetName
    \/ ToBinding

SpecProj == InitProj /\ [][NextProj]_vars

(***************************************************************************)
(* Error decoding helpers of kernel::error.                                *)
(***************************************************************************)
\* Error::from_kernel_errno: the typed error carrying the native code
from_kernel_errno(e) == Error(e)

\* only negative codes are failures
to_result_NegativeOnly(err) == IF err < 0 THEN Err(from_kernel_errno(err)) ELSE Ok(<<>>)

\* to_result: the error-mapping rule of a native return code
to_result(err) == IF err = 0 THEN Ok(<<>>) ELSE Err(from_kernel_errno(err))

\* a native error-coded pointer (ERR_PTR) or a valid pointer
ErrPtr(code) == [is_err |-> TRUE, code |-> code]
ValidPtr(p) == [is_err |-> FALSE, ptr |-> p]

\* from_kernel_err_ptr: decode the result of a pointer-returning native call
from_kernel_err_ptr(p) == IF p.is_err THEN Err(Error(p.code)) ELSE Ok(p.ptr)

(***************************************************************************)
(* Native calls and transport releases are recorded as events: the call,   *)
(* the regmap pointer it is given or returns (0 when none) and the         *)
(* transport of the handle or attempt it belongs to.                       *)
(***************************************************************************)
Ev(op, ptr, bus) == [op |-> op, ptr |-> ptr, bus |-> bus]

\* the IoMem value is dropped (the mapping is released)
DropBus(bus) == Ev("drop IoMem", 0, bus)

(***************************************************************************)
(* Memory seen by __regmap_init_mmio_clk: the objects alive while the call *)
(* runs, with their contents.  `binds` is the bundle as stored by the      *)
(* caller at region bindsAt; self is the Configuration.                    *)
(***************************************************************************)
TableSlices(self) ==
    UNION {{self[f].val.yes_ranges, self[f].val.no_ranges} :
             f \in {g \in TableFields : self[g].some}}

BorrowedSlices(self) ==
    TableSlices(self)
    \cup (IF self.reg_defaults.some THEN {self.reg_defaults.val} ELSE {})
    \cup (IF self.ranges.some THEN {self.ranges.val} ELSE {})

StaticNames(self) ==
    (IF self.name.some THEN {self.name.val} ELSE {})
    \cup (IF self.ranges.some
          THEN {self.ranges.val.elems[i].name : i \in 1..Len(self.ranges.val.elems)}
          ELSE {})

LiveObjects(self, binds, bindsAt) ==
    {Obj(bindsAt, f, 0) : f \in {g \in TableFields : binds[g].some}}
    \cup (IF binds.ranges.some THEN {binds.ranges.val.buf} ELSE {})
    \cup {Obj("borrowed", sl.kind, sl.id) : sl \in BorrowedSlices(self)}
    \cup {Obj("static", n, 0) : n \in StaticNames(self)}

Contents(self, binds, bindsAt, o) ==
    IF o.region = bindsAt THEN binds[o.field].val
    ELSE IF o.region \in {"heap", "dangling"} THEN binds.ranges.val.items
    ELSE IF o.region = "borrowed"
         THEN (CHOOSE sl \in BorrowedSlices(self) :
                   sl.kind = o.field /\ sl.id = o.id).elems
    ELSE o.field

Memory(self, binds, bindsAt) ==
    [o \in LiveObjects(self, binds, bindsAt) |-> Contents(self, binds, bindsAt, o)]

(***************************************************************************)
(* Regmap::from_mmio.  mmio is the transport passed by value, config the   *)
(* Configuration; env, moved and native are the environment's choices:     *)
(* what the machine does during to_binding, whether the build moves the    *)
(* returned bundle out of to_binding's frame into the caller's local (it   *)
(* does unless it elides the copy), and what the native open call returns. *)
(* The result, the events issued and what the native call was given.       *)
(***************************************************************************)
\* the handle is built before the native result is decoded, so that the
\* failure path drops a handle
from_mmio_HandleFirst(mmio, self, env, moved, native) ==
    LET b == RegmapConfig_to_binding(self, env)
    IN  IF ~b.ok
        THEN [ result |-> b,
               calls  |-> <<DropBus(mmio)>>,
               called |-> FALSE ]
        ELSE
        LET cfg == b.val[1]
            internal_bindings == b.val[2]
            bindsAt == IF moved THEN BindsCaller ELSE env.frame
            ptr == from_kernel_err_ptr(native)
            open == Ev("__regmap_init_mmio_clk", IF native.is_err THEN 0 ELSE native.ptr, mmio)
        IN  [ result |-> IF ptr.ok
                         THEN Ok([ptr |-> ptr.val, bus |-> mmio])
                         ELSE ptr,
              calls  |-> IF ptr.ok
                         THEN <<open>>
                         ELSE <<open, Ev("regmap_exit", 0, mmio), DropBus(mmio)>>,
              called |-> TRUE,
              cfg    |-> cfg,
              binds  |-> internal_bindings,
              bindsAt |-> bindsAt,
              mem    |-> Memory(self, internal_bindings, bindsAt) ]

from_mmio(mmio, self, env, moved, native) ==
    LET b == RegmapConfig_to_binding(self, env)
    IN  IF ~b.ok
        THEN [ result |-> b,
               calls  |-> <<DropBus(mmio)>>,
               called |-> FALSE ]
        ELSE
        LET cfg == b.val[1]
            internal_bindings == b.val[2]
            bindsAt == IF moved THEN BindsCaller ELSE env.frame
            ptr == from_kernel_err_ptr(native)
            open == Ev("__regmap_init_mmio_clk", IF native.is_err THEN 0 ELSE native.ptr, mmio)
        IN  [ result |-> IF ptr.ok
                         THEN Ok([ptr |-> ptr.val, bus |-> mmio])
                         ELSE ptr,
              calls  |-> IF ptr.ok THEN <<open>> ELSE <<open, DropBus(mmio)>>,
              called |-> TRUE,
              cfg    |-> cfg,
              binds  |-> internal_bindings,
              bindsAt |-> bindsAt,
              mem    |-> Memory(self, internal_bindings, bindsAt) ]

(***************************************************************************)
(* Regmap::regmap_read, Regmap::regmap_write, Drop for Regmap.             *)
(* native is what the native call does: its return code and, for a read,   *)
(* whether and what it stores through the out-parameter.                   *)
(***************************************************************************)
\* only negative codes are failures
regmap_read_NegativeOnly(self, reg, native) ==
    LET val0 == 0
        val == IF native.stores THEN native.out ELSE val0
    IN  [ result |-> IF native.code >= 0
                     THEN Ok(val)
                     ELSE Err(from_kernel_errno(native.code)),
          calls  |-> <<Ev("regmap_read", self.ptr, self.bus)>>,
          self   |-> self ]

regmap_read(self, reg, native) ==
    LET val0 == 0
        val == IF native.stores THEN native.out ELSE val0
    IN  [ result |-> IF native.code = 0
                     THEN Ok(val)
                     ELSE Err(from_kernel_errno(native.code)),
          calls  |-> <<Ev("regmap_read", self.ptr, self.bus)>>,
          self   |-> self ]

\* a failed native write is issued a second time
regmap_write_Retry(self, reg, val, native) ==
    LET call == Ev("regmap_write", self.ptr, self.bus)
    IN  [ result |-> to_result(native.code),
          calls  |-> IF native.code = 0 THEN <<call>> ELSE <<call, call>>,
          self   |-> self ]

regmap_write(self, reg, val, native) ==
    [ result |-> to_result(native.code),
      calls  |-> <<Ev("regmap_write", self.ptr, self.bus)>>,
      self   |-> self ]

\* the transport is released before the native close
drop_BusFirst(self) == <<DropBus(self.bus), Ev("regmap_exit", self.ptr, self.bus)>>

drop(self) == <<Ev("regmap_exit", self.ptr, self.bus), DropBus(self.bus)>>

(***************************************************************************)
(* Inputs of the handle specification.                                     *)
(***************************************************************************)
NativePtrs == {101, 102}
OpenErrnos == {0 - 12, 0 - 22}
Regs == {4}
Vals == {0, 4660}
Codes == {0 - 5, 0, 1}

\* regmap_read stores the register's value whenever it returns 0; when it
\* fails it may or may not have touched the out-parameter
NativeReads ==
    {n \in [code : Codes, stores : BOOLEAN, out : Vals] :
        /\ n.code = 0 => n.stores
        /\ n.code # 0 => n.out = 4660}
NativeWrites == [code : Codes]
WriteVals == {4660}

FullRanges == Slice("regmap_range", [i \in 1..MaxLen |-> RangeAt(i)])
ShortRanges == Slice("regmap_range", [i \in 1..1 |-> RangeAt(i)])
SampleTable == [yes_ranges |-> FullRanges, no_ranges |-> ShortRanges]
BaseConfig == RegmapConfig_new(8, 16)

FullConfig ==
    [BaseConfig EXCEPT !.name = Some("regs"),
                       !.wr_table = Some(SampleTable),
                       !.rd_table = Some(SampleTable),
                       !.volatile_table = Some(SampleTable),
                       !.precious_table = Some(SampleTable),
                       !.wr_noinc_table = Some(SampleTable),
                       !.rd_noinc_table = Some(SampleTable),
                       !.reg_defaults = Some(Slice("reg_default", [i \in 1..MaxLen |-> DefaultAt(i)])),
                       !.ranges = Some(Slice("RegmapRangeConfig",
                                                [i \in 1..MaxLen |-> RangeCfgAt(i)]))]

\* the Configurations handed to from_mmio
OpenConfigs ==
    {BaseConfig, FullConfig}
    \cup {[BaseConfig EXCEPT !.ranges = Some(r)] : r \in RangeCfgSlices}

NativeOpens ==
    {ErrPtr(c) : c \in OpenErrnos}
    \cup {ValidPtr(p) : p \in {q \in NativePtrs : \A h \in handles : h.ptr # q}}

OpsDone == Cardinality({i \in DOMAIN log : log[i].op \in {"regmap_read", "regmap_write"}})

(***************************************************************************)
(* Actions of the handle specification.                                    *)
(***************************************************************************)
FromMmioWith(configs, envs, moves) ==
    \E c \in configs, env \in envs, moved \in moves, native \in NativeOpens :
        /\ attempts < MaxAttempts
        /\ LET mmio == attempts + 1
               r == from_mmio(mmio, c, env, moved, native)
           IN  /\ attempts' = mmio
               /\ handles' = IF r.result.ok THEN handles \cup {r.result.val} ELSE handles
               /\ log' = log \o r.calls
               /\ lastOpen' = [done |-> TRUE, bus |-> mmio, config |-> c, oom |-> env.oom,
                               native |-> native, out |-> r]
        /\ UNCHANGED <<lastOp, projVars>>

\* from_mmio on any Configuration, whatever the allocator and the build do
OpenAny == FromMmioWith(OpenConfigs, Envs, BOOLEAN)

\* from_mmio on the default Configuration (nothing to allocate or to move)
Open == FromMmioWith({BaseConfig}, {e \in Envs : ~e.oom}, {TRUE})

RegmapRead ==
    \E h \in handles, reg \in Regs, native \in NativeReads :
        /\ OpsDone < MaxOps
        /\ LET r == regmap_read(h, reg, native)
           IN  /\ handles' = (handles \ {h}) \cup {r.self}
               /\ log' = log \o r.calls
               /\ lastOp' = [done |-> TRUE, op |-> "regmap_read", self |-> h, reg |-> reg,
                             native |-> native, out |-> r]
        /\ UNCHANGED <<attempts, lastOpen, projVars>>

RegmapWrite ==
    \E h \in handles, reg \in Regs, val \in WriteVals, native \in NativeWrites :
        /\ OpsDone < MaxOps
        /\ LET r == regmap_write(h, reg, val, native)
           IN  /\ handles' = (handles \ {h}) \cup {r.self}
               /\ log' = log \o r.calls
               /\ lastOp' = [done |-> TRUE, op |-> "regmap_write", self |-> h, reg |-> reg,
                             val |-> val, native |-> native, out |-> r]
        /\ UNCHANGED <<attempts, lastOpen, projVars>>

Drop ==
    \E h \in handles :
        /\ handles' = handles \ {h}
        /\ log' = log \o drop(h)
        /\ UNCHANGED <<attempts, lastOpen, lastOp, projVars>>

Init ==
    /\ config = BaseConfig
    /\ nsets = 0
    /\ proj = NoProj
    /\ first = NoProj
    /\ attempts = 0
    /\ handles = {}
    /\ log = <<>>
    /\ lastOpen = NoOpen
    /\ lastOp = NoOp

Next ==
    \/ Open
    \/ RegmapRead
    \/ RegmapWrite
    \/ Drop

Spec == Init /\ [][Next]_vars

NextOpen ==
    \/ OpenAny
    \/ Drop

SpecOpen == Init /\ [][NextOpen]_vars

\* the Configurations projected twice: those above, and those with one
\* access table, with register defaults or with a name only
TwiceConfigs ==
    OpenConfigs
    \cup {[BaseConfig EXCEPT ![f] = Some(SampleTable)] : f \in TableFields}
    \cup {[BaseConfig EXCEPT !.reg_defaults = Some(d)] : d \in DefaultSlices}
    \cup {[BaseConfig EXCEPT !.name = Some(n)] : n \in Names}

\* the projection called repeatedly on one Configuration
InitTwice ==
    /\ config \in TwiceConfigs
    /\ nsets = 0
    /\ proj = NoProj
    /\ first = NoProj
    /\ attempts = 0
    /\ handles = {}
    /\ log = <<>>
    /\ lastOpen = NoOpen
    /\ lastOp = NoOp

NextTwice ==
    \/ ToBinding
    \/ ToBindingAgain

SpecTwice == InitTwice /\ [][NextTwice]_vars

(***************************************************************************)
(* Properties of the handle life cycle.                                    *)
(***************************************************************************)
Positions(op, bus) == {i \in DOMAIN log : log[i].op = op /\ log[i].bus = bus}

\* the from_mmio call that consumed transport `bus` produced a handle
Produced(bus) ==
    \E i \in Positions("__regmap_init_mmio_clk", bus) : log[i].ptr # 0

Live(bus) == \E h \in handles : h.bus = bus

\* C1: for every handle produced by a successful from_mmio, the native close
\* (regmap_exit) and the release of the transport each happen at most once,
\* never while the handle is alive, and exactly once each, the close first
\* and on the handle's native pointer, once the handle has been destroyed.
C1_DropOnce ==
    \A b \in 1..attempts :
        Produced(b) =>
            LET exits == Positions("regmap_exit", b)
                rels == Positions("drop IoMem", b)
                opens == Positions("__regmap_init_mmio_clk", b)
            IN  /\ Cardinality(exits) <= 1
                /\ Cardinality(rels) <= 1
                /\ Live(b) => exits = {} /\ rels = {}
                /\ ~Live(b) =>
                      /\ Cardinality(exits) = 1
                      /\ Cardinality(rels) = 1
                      /\ \A i \in exits, j \in rels : i < j
                      /\ \A i \in exits, k \in opens : log[i].ptr = log[k].ptr

\* a handle was read or written, then destroyed, and another call followed
C1_Witness ==
    \E b \in 1..attempts :
        /\ Produced(b)
        /\ ~Live(b)
        /\ Positions("regmap_exit", b) # {}
        /\ Positions("regmap_read", b) \cup Positions("regmap_write", b) # {}
        /\ attempts > b

\* C2: when the native open call returns an error-coded pointer, from_mmio
\* returns the failure carrying that code, no handle exists for the attempt,
\* regmap_exit is never called for it and its transport is released exactly
\* once.
C2_FailedOpen ==
    (lastOpen.done /\ lastOpen.out.called /\ lastOpen.native.is_err) =>
        /\ lastOpen.out.result = [ok |-> FALSE, err |-> [errno |-> lastOpen.native.code]]
        /\ ~Live(lastOpen.bus)
        /\ ~Produced(lastOpen.bus)
        /\ Positions("regmap_exit", lastOpen.bus) = {}
        /\ Cardinality(Positions("drop IoMem", lastOpen.bus)) = 1

\* the second attempt failed in the native open call while the handle of the
\* first attempt had already been dropped
C2_Witness ==
    /\ lastOpen.done
    /\ lastOpen.out.called
    /\ lastOpen.native.is_err
    /\ lastOpen.bus = 2
    /\ Positions("regmap_exit", 1) # {}

PtrFields == TableFields \cup {"ranges", "reg_defaults", "name"}

\* what the pointer in field f of the native configuration was projected from
Projected(f) ==
    IF f \in TableFields THEN lastOpen.out.binds[f].val
    ELSE IF f = "ranges" THEN lastOpen.out.binds.ranges.val.items
    ELSE IF f = "reg_defaults" THEN lastOpen.config.reg_defaults.val.elems
    ELSE lastOpen.config.name.val

\* C3: during the native open call every non-null pointer of the native
\* configuration refers to a live object holding what it was projected from;
\* each access-table pointer refers to the table inside the bundle the caller
\* holds.
C3_PointersLive ==
    (lastOpen.done /\ lastOpen.out.called) =>
        \A f \in PtrFields :
            LET p == lastOpen.out.cfg[f]
            IN  ~p.null =>
                  /\ p.obj \in DOMAIN lastOpen.out.mem
                  /\ lastOpen.out.mem[p.obj] = Projected(f)
                  /\ f \in TableFields => p.obj.region = lastOpen.out.bindsAt

RangesAllocated(c) == c.ranges.some /\ Len(c.ranges.val.elems) > 0

\* C4: if the allocation of the projected range-config sequence fails,
\* to_binding and from_mmio return the out-of-memory failure, the native
\* open call is not made for the attempt and no handle is produced.
C4_AllocFailure ==
    (lastOpen.done /\ lastOpen.oom /\ RangesAllocated(lastOpen.config)) =>
        /\ \A e \in Envs :
               e.oom => RegmapConfig_to_binding(lastOpen.config, e)
                            = [ok |-> FALSE, err |-> [errno |-> 0 - 12]]
        /\ lastOpen.out.result = [ok |-> FALSE, err |-> [errno |-> 0 - 12]]
        /\ ~lastOpen.out.called
        /\ Positions("__regmap_init_mmio_clk", lastOpen.bus) = {}
        /\ ~Live(lastOpen.bus)

\* the allocation failed for a Configuration with MaxLen ranges and tables
C4_Witness ==
    /\ lastOpen.done
    /\ lastOpen.oom
    /\ RangesAllocated(lastOpen.config)
    /\ lastOpen.config.wr_table.some
    /\ ~lastOpen.out.result.ok

\* C5: regmap_write succeeds exactly when the native write returns 0, fails
\* with the native code for every other code, and so maps every code the way
\* regmap_read does.
C5_WriteMapping ==
    (lastOp.done /\ lastOp.op = "regmap_write") =>
        LET code == lastOp.native.code
            res == lastOp.out.result
            rd == regmap_read(lastOp.self, lastOp.reg,
                              [code |-> code, stores |-> TRUE, out |-> 0]).result
        IN  /\ res.ok <=> code = 0
            /\ ~res.ok => res.err = [errno |-> code]
            /\ res.ok <=> rd.ok
            /\ ~res.ok => res.err = rd.err

\* a write whose native call returned a positive code
C5_Witness ==
    /\ lastOp.done
    /\ lastOp.op = "regmap_write"
    /\ lastOp.native.code > 0
    /\ ~lastOp.out.result.ok

\* C6: regmap_read returns Ok(v) exactly when the native read returns 0, v
\* being the value the native call stored; for any other code it returns
\* the failure carrying that code and no value.
C6_ReadMapping ==
    (lastOp.done /\ lastOp.op = "regmap_read") =>
        LET code == lastOp.native.code
            res == lastOp.out.result
        IN  /\ res.ok <=> code = 0
            /\ res.ok => lastOp.native.stores /\ res.val = lastOp.native.out
            /\ ~res.ok => res.err = [errno |-> code] /\ "val" \notin DOMAIN res

\* the read of the spec's example: code 0 with out-value 0x1234
C6_Witness ==
    /\ lastOp.done
    /\ lastOp.op = "regmap_read"
    /\ lastOp.native.code = 0
    /\ lastOp.native.out = 4660
    /\ lastOp.out.result = [ok |-> TRUE, val |-> 4660]

(***************************************************************************)
(* Properties of the projection.                                           *)
(***************************************************************************)
\* the native configuration and the bundle of the last successful projection
ProjCfg == proj.result.val[1]
ProjBinds == proj.result.val[2]

\* C7: a Configuration built by RegmapConfig::new(reg_bits, val_bits) with
\* no optional field set projects to reg_bits and val_bits as given, 0 in
\* every optional numeric field, FALSE in every optional boolean, null with
\* count 0 in every optional pointer, cache_type 0 and both endianness
\* selectors 0.
C7_Defaults ==
    (proj.done /\ nsets = 0) =>
        /\ proj.result.ok
        /\ ProjCfg.reg_bits = config.reg_bits
        /\ ProjCfg.val_bits = config.val_bits
        /\ ProjCfg.reg_bits \in RegBitsSet
        /\ ProjCfg.val_bits \in ValBitsSet
        /\ \A f \in {"reg_stride", "reg_downshift", "reg_base", "pad_bits",
                     "max_raw_read", "max_raw_write", "max_register",
                     "read_flag_mask", "write_flag_mask"} : ProjCfg[f] = 0
        /\ \A f \in {"fast_io", "io_port", "zero_flag_mask", "use_single_read",
                     "use_single_write", "use_relaxed_mmio", "can_multi_write",
                     "can_sleep"} : ProjCfg[f] = FALSE
        /\ \A f \in {"name", "wr_table", "rd_table", "volatile_table",
                     "precious_table", "wr_noinc_table", "rd_noinc_table",
                     "reg_defaults", "ranges"} : ProjCfg[f] = [null |-> TRUE]
        /\ ProjCfg.num_reg_defaults = 0
        /\ ProjCfg.num_ranges = 0
        /\ ProjCfg.cache_type = 0
        /\ ProjCfg.reg_format_endian = 0
        /\ ProjCfg.val_format_endian = 0

\* the spec's example: Configuration{reg_bits=8, val_bits=16} was projected
C7_Witness ==
    /\ proj.done
    /\ nsets = 0
    /\ config.reg_bits = 8
    /\ config.val_bits = 16
    /\ proj.result.ok

\* C8: whatever the Configuration holds, the native value has every
\* capability callback, lock, unlock, reg_read, reg_write, reg_update_bits,
\* read and write unset, lock_arg null, disable_locking, use_hwlock and
\* use_raw_spinlock FALSE, hwlock_id and hwlock_mode 0 and reg_defaults_raw
\* null with num_reg_defaults_raw 0.
C8_Unsupported ==
    (proj.done /\ proj.result.ok) =>
        /\ \A f \in {"writeable_reg", "readable_reg", "volatile_reg", "precious_reg",
                     "writeable_noinc_reg", "readable_noinc_reg", "lock", "unlock",
                     "reg_read", "reg_write", "reg_update_bits", "read", "write"} :
               ProjCfg[f] = [some |-> FALSE]
        /\ ProjCfg.lock_arg = [null |-> TRUE]
        /\ ProjCfg.disable_locking = FALSE
        /\ ProjCfg.use_hwlock = FALSE
        /\ ProjCfg.use_raw_spinlock = FALSE
        /\ ProjCfg.hwlock_id = 0
        /\ ProjCfg.hwlock_mode = 0
        /\ ProjCfg.reg_defaults_raw = [null |-> TRUE]
        /\ ProjCfg.num_reg_defaults_raw = 0

\* a Configuration asking for fast IO was projected
C8_Witness ==
    /\ proj.done
    /\ proj.result.ok
    /\ config.fast_io = [some |-> TRUE, val |-> TRUE]
    /\ ProjCfg.fast_io = TRUE

\* C9: when ranges holds N RangeConfigs and the projection succeeds, the
\* bundle's sequence has N entries, entry i carries the seven numeric fields
\* of the i-th original unchanged and the address of its name, the native
\* ranges pointer is the address of the first projected entry and num_ranges
\* is N; when ranges is absent the pointer is null and num_ranges is 0.
C9_Ranges ==
    (proj.done /\ proj.result.ok) =>
        IF config.ranges.some
        THEN LET r == config.ranges.val.elems
                 v == ProjBinds.ranges.val
             IN  /\ ProjBinds.ranges.some
                 /\ Len(v.items) = Len(r)
                 /\ \A i \in 1..Len(r) :
                       /\ \A f \in {"range_min", "range_max", "selector_reg",
                                    "selector_mask", "selector_shift",
                                    "window_start", "window_len"} :
                              v.items[i][f] = r[i][f]
                       /\ v.items[i].name =
                              [null |-> FALSE, idx |-> 0,
                               obj |-> [region |-> "static", field |-> r[i].name, id |-> 0]]
                 /\ ~ProjCfg.ranges.null
                 /\ ProjCfg.ranges.obj = v.buf
                 /\ ProjCfg.ranges.idx = 0
                 /\ Len(r) > 0 => v.buf.region = "heap"
                 /\ ProjCfg.num_ranges = Len(r)
        ELSE /\ ProjCfg.ranges = [null |-> TRUE]
             /\ ProjCfg.num_ranges = 0
             /\ ProjBinds.ranges = [some |-> FALSE]

\* a sequence of MaxLen RangeConfigs was projected
C9_Witness ==
    /\ proj.done
    /\ proj.result.ok
    /\ config.ranges.some
    /\ Len(config.ranges.val.elems) = MaxLen
    /\ Len(ProjBinds.ranges.val.items) = MaxLen

\* C10: the projection of an AccessTable has n_yes_ranges and n_no_ranges
\* equal to the lengths of its two slices, each pointer being the address of
\* the slice's first element; each of the six native access-table pointers
\* is non-null exactly when the Configuration has that table.
C10_AccessTables ==
    (proj.done /\ proj.result.ok) =>
        \A f \in TableFields :
            /\ ProjCfg[f].null <=> ~config[f].some
            /\ ProjBinds[f].some <=> config[f].some
            /\ config[f].some =>
                  LET t == ProjBinds[f].val
                      a == config[f].val
                  IN  /\ t.n_yes_ranges = Len(a.yes_ranges.elems)
                      /\ t.n_no_ranges = Len(a.no_ranges.elems)
                      /\ t.yes_ranges =
                            [null |-> FALSE, idx |-> 0,
                             obj |-> [region |-> "borrowed", field |-> a.yes_ranges.kind,
                                      id |-> a.yes_ranges.id]]
                      /\ t.no_ranges =
                            [null |-> FALSE, idx |-> 0,
                             obj |-> [region |-> "borrowed", field |-> a.no_ranges.kind,
                                      id |-> a.no_ranges.id]]

\* a table with MaxLen yes-ranges and no no-range was projected
C10_Witness ==
    /\ proj.done
    /\ proj.result.ok
    /\ config.rd_noinc_table.some
    /\ Len(config.rd_noinc_table.val.yes_ranges.elems) = MaxLen
    /\ Len(config.rd_noinc_table.val.no_ranges.elems) = 0
    /\ ~ProjCfg.rd_noinc_table.null
    /\ ProjCfg.wr_table.null

(***************************************************************************)
(* Two projections of one Configuration.                                   *)
(***************************************************************************)
\* the native configuration and the bundle of the projection made before
FirstCfg == first.result.val[1]
FirstBinds == first.result.val[2]

\* the caller holds the results of two successful projections
BothProjected == first.done /\ proj.done /\ first.result.ok /\ proj.result.ok

\* the native fields that hold the address of storage made by the call: the
\* tables of the bundle and the buffer of the projected ranges
OwnStorageFields == TableFields \cup {"ranges"}

\* C11 (as stated): two successful projections of the same unmodified
\* Configuration yield native values that are identical in every field, and
\* the projection leaves the Configuration unchanged.
C11_Identical ==
    BothProjected =>
        /\ first.of = config
        /\ proj.of = config
        /\ \A f \in DOMAIN ProjCfg : FirstCfg[f] = ProjCfg[f]

\* C11 (amended): two successful projections of the same unmodified
\* Configuration yield native values that are identical in every field
\* except the six access-table pointers and the ranges pointer; each of
\* these is null in both values or non-null in both, and the tables and the
\* projected range sequences of the two bundles are equal entry by entry;
\* the projection leaves the Configuration unchanged.
C11_Deterministic ==
    BothProjected =>
        /\ first.of = config
        /\ proj.of = config
        /\ DOMAIN FirstCfg = DOMAIN ProjCfg
        /\ \A f \in DOMAIN ProjCfg \ OwnStorageFields : FirstCfg[f] = ProjCfg[f]
        /\ \A f \in OwnStorageFields : FirstCfg[f].null <=> ProjCfg[f].null
        /\ \A f \in TableFields : FirstBinds[f] = ProjBinds[f]
        /\ FirstBinds.ranges.some <=> ProjBinds.ranges.some
        /\ ProjBinds.ranges.some =>
              FirstBinds.ranges.val.items = ProjBinds.ranges.val.items

\* a Configuration with tables, register defaults and MaxLen ranges was
\* projected twice: the two ranges pointers and the two wr_table pointers
\* differ, the reg_defaults pointers are the same address
C11_Witness ==
    /\ BothProjected
    /\ config.wr_table.some
    /\ config.ranges.some
    /\ Len(ProjBinds.ranges.val.items) = MaxLen
    /\ FirstCfg.ranges # ProjCfg.ranges
    /\ FirstCfg.wr_table # ProjCfg.wr_table
    /\ ~ProjCfg.reg_defaults.null
    /\ FirstCfg.reg_defaults = ProjCfg.reg_defaults

(***************************************************************************)
(* Native calls made through a handle.                                     *)
(***************************************************************************)
\* the native pointer returned by the open call of transport `bus`
OpenedPtrs(bus) == {log[k].ptr : k \in Positions("__regmap_init_mmio_clk", bus)}

\* C12: each regmap_read or regmap_write on a live handle issues exactly one
\* native call, of that operation and on the handle's native pointer,
\* whatever the native code; a failing native call is reported to the caller,
\* is not issued again and leaves the handle's pointer and transport as
\* they were, so that every read, write and close of a handle is given the
\* pointer its open call returned.
C12_SingleCall ==
    /\ lastOp.done =>
          /\ lastOp.out.calls = <<[op |-> lastOp.op, ptr |-> lastOp.self.ptr,
                                   bus |-> lastOp.self.bus]>>
          /\ lastOp.out.self = lastOp.self
          /\ lastOp.native.code # 0 =>
                lastOp.out.result = [ok |-> FALSE, err |-> [errno |-> lastOp.native.code]]
    /\ \A h \in handles : OpenedPtrs(h.bus) = {h.ptr}
    /\ \A b \in 1..attempts :
          Produced(b) =>
              \A i \in Positions("regmap_read", b) \cup Positions("regmap_write", b)
                         \cup Positions("regmap_exit", b) :
                  OpenedPtrs(b) = {log[i].ptr}

\* the second operation on a handle failed in the native call, then the
\* handle was dropped: both operations and the close were given its pointer
C12_Witness ==
    /\ lastOp.done
    /\ lastOp.native.code # 0
    /\ ~lastOp.out.result.ok
    /\ ~Live(lastOp.self.bus)
    /\ Cardinality(Positions("regmap_read", lastOp.self.bus)
                   \cup Positions("regmap_write", lastOp.self.bus)) = 2
    /\ \E i \in Positions("regmap_exit", lastOp.self.bus) : log[i].ptr = lastOp.self.ptr

====
